---- MODULE Spec2Model ----
(***************************************************************************)
(* Model of examples/sphinx/example_0_ed_calculator.py: exact              *)
(* diagonalization of two electrons in a p shell, without and with         *)
(* spin-orbit coupling.  The script is a straight line of library calls    *)
(* and prints; the state is the script's bindings, its position and the    *)
(* lines printed so far.                                                   *)
(*                                                                         *)
(* Floating-point numbers are modelled by exact numbers: every array       *)
(* carries an integer denominator `den`, and its entries are complex       *)
(* numbers whose real and imaginary parts are integer combinations of the  *)
(* square roots listed in Rad (the radicals that occur in the operators    *)
(* and in the eigenvectors of this problem).                               *)
(***************************************************************************)
EXTENDS Integers, Sequences, FiniteSets, TLC

(***************************************************************************)
(* Parameters of the script (lines 23-26, 86, 119, 154, 155).              *)
(***************************************************************************)
l == 1
norb == 6
noccu == 2
F0 == 4
F2 == 1
\* the spin-orbit strength 0.2 = SocNum / SocDen
SocNum == 1
SocDen == 5

(***************************************************************************)
(* Real numbers: x[k] is the integer coefficient of Sqrt(Rad[k]).          *)
(***************************************************************************)
Rad == <<1, 2, 3, 6, 83, 166, 249, 498>>
NRad == Len(Rad)
RadIx == 1..NRad

RECURSIVE GCD(_, _)
GCD(a, b) == IF b = 0 THEN a ELSE GCD(b, a % b)

Abs(a) == IF a < 0 THEN -a ELSE a

LCM(a, b) == (a \div GCD(a, b)) * b

\* Sqrt(Rad[s]) * Sqrt(Rad[t]) = RadCoef[s][t] * Sqrt(Rad[RadIdx[s][t]])
RadCoef == [s \in RadIx |-> [t \in RadIx |-> GCD(Rad[s], Rad[t])]]
RadIdx ==
  [s \in RadIx |-> [t \in RadIx |->
     CHOOSE k \in RadIx :
        Rad[k] * RadCoef[s][t] * RadCoef[s][t] = Rad[s] * Rad[t]]]
\* the t with RadIdx[s][t] = r
RadPartner ==
  [r \in RadIx |-> [s \in RadIx |-> CHOOSE t \in RadIx : RadIdx[s][t] = r]]

FZero == [k \in RadIx |-> 0]
FInt(n) == [k \in RadIx |-> IF k = 1 THEN n ELSE 0]
FRoot(k, n) == [j \in RadIx |-> IF j = k THEN n ELSE 0]
FAdd(x, y) == [k \in RadIx |-> x[k] + y[k]]
FSub(x, y) == [k \in RadIx |-> x[k] - y[k]]
FNeg(x) == [k \in RadIx |-> -x[k]]
FScale(n, x) == [k \in RadIx |-> n * x[k]]

FTerm(x, y, r, s) ==
  IF x[s] = 0 THEN 0
  ELSE LET t == RadPartner[r][s]
       IN  IF y[t] = 0 THEN 0 ELSE x[s] * y[t] * RadCoef[s][t]

FMul(x, y) ==
  IF x = FZero \/ y = FZero THEN FZero
  ELSE [r \in RadIx |->
          FTerm(x, y, r, 1) + FTerm(x, y, r, 2) + FTerm(x, y, r, 3)
        + FTerm(x, y, r, 4) + FTerm(x, y, r, 5) + FTerm(x, y, r, 6)
        + FTerm(x, y, r, 7) + FTerm(x, y, r, 8)]

(***************************************************************************)
(* Order of the reals: Sqrt(Rad[k]) lies between RootLo[k] / RootScale     *)
(* and RootHi[k] / RootScale, which brackets every number; FSign decides   *)
(* the sign when the bracket excludes 0 (and is 2 otherwise).              *)
(***************************************************************************)
RootScale == 2000
RootLo ==
  [k \in RadIx |->
     CHOOSE r \in 0..(23 * RootScale) :
        /\ r * r <= Rad[k] * RootScale * RootScale
        /\ (r + 1) * (r + 1) > Rad[k] * RootScale * RootScale]
RootHi == [k \in RadIx |-> IF RootLo[k] * RootLo[k] = Rad[k] * RootScale * RootScale
                           THEN RootLo[k] ELSE RootLo[k] + 1]

RECURSIVE FBound(_, _, _)
\* a lower (hi = FALSE) or upper (hi = TRUE) bound of RootScale * x
FBound(x, hi, k) ==
  IF k = 0 THEN 0
  ELSE FBound(x, hi, k - 1)
       + (IF (x[k] >= 0) = hi THEN x[k] * RootHi[k] ELSE x[k] * RootLo[k])

FSign(x) ==
  IF x = FZero THEN 0
  ELSE IF FBound(x, FALSE, NRad) > 0 THEN 1
  ELSE IF FBound(x, TRUE, NRad) < 0 THEN -1
  ELSE 2

\* x / xd <= y / yd for positive integer denominators
FLeq(x, xd, y, yd) == FSign(FSub(FScale(yd, x), FScale(xd, y))) \in {0, -1}

(***************************************************************************)
(* Complex numbers.                                                        *)
(***************************************************************************)
CZero == [re |-> FZero, im |-> FZero]
CReal(x) == [re |-> x, im |-> FZero]
CInt(n) == CReal(FInt(n))
CImag(n) == [re |-> FZero, im |-> FInt(n)]
CAdd(a, b) == [re |-> FAdd(a.re, b.re), im |-> FAdd(a.im, b.im)]
CSub(a, b) == [re |-> FSub(a.re, b.re), im |-> FSub(a.im, b.im)]
CScale(n, a) == [re |-> FScale(n, a.re), im |-> FScale(n, a.im)]
CConj(a) == [re |-> a.re, im |-> FNeg(a.im)]
CMul(a, b) ==
  IF a = CZero \/ b = CZero THEN CZero
  ELSE [re |-> FSub(FMul(a.re, b.re), FMul(a.im, b.im)),
        im |-> FAdd(FMul(a.re, b.im), FMul(a.im, b.re))]


(***************************************************************************)
(* Arrays: [den |-> d, val |-> a] stands for the array a / d.              *)
(***************************************************************************)
Arr(d, a) == [den |-> d, val |-> a]

\* the entries of A brought to the denominator d (a multiple of A.den)
MatScaled(A, d) ==
  LET f == d \div A.den
  IN  [i \in DOMAIN A.val |-> [j \in DOMAIN A.val[i] |-> CScale(f, A.val[i][j])]]

\* A + B for two matrices of the same shape
MatAdd(A, B) ==
  LET d == LCM(A.den, B.den)
      a == MatScaled(A, d)
      b == MatScaled(B, d)
  IN  Arr(d, [i \in DOMAIN a |-> [j \in DOMAIN a[i] |-> CAdd(a[i][j], b[i][j])]])

RECURSIVE DotSum(_, _, _, _, _)
DotSum(a, b, i, j, k) ==
  IF k = 0 THEN CZero
  ELSE CAdd(DotSum(a, b, i, j, k - 1), CMul(a[i][k], b[k][j]))

\* np.dot(A, B) for two square matrices
Dot(A, B) ==
  Arr(A.den * B.den,
      [i \in DOMAIN A.val |-> [j \in DOMAIN A.val |->
          DotSum(A.val, B.val, i, j, Len(A.val))]])

RECURSIVE TraceSum(_, _)
TraceSum(a, k) == IF k = 0 THEN CZero ELSE CAdd(TraceSum(a, k - 1), a[k][k])

\* the trace of A, times A.den
Trace(A) == TraceSum(A.val, Len(A.val))

IsHermitian(A) ==
  \A i \in DOMAIN A.val : \A j \in DOMAIN A.val : A.val[i][j] = CConj(A.val[j][i])

IsSymmetric(A) ==
  \A i \in DOMAIN A.val : \A j \in DOMAIN A.val : A.val[i][j] = A.val[j][i]

IsRealMat(A) ==
  \A i \in DOMAIN A.val : \A j \in DOMAIN A.val : A.val[i][j].im = FZero

(***************************************************************************)
(* The single-particle basis of a shell with orbital quantum number ll:    *)
(* complex harmonics m = -ll .. ll, each with spin up then spin down.      *)
(***************************************************************************)
OrbM(ll, o) == ((o - 1) \div 2) - ll
OrbSpin(o) == (o - 1) % 2
ShellL(case) == IF case = "p" THEN 1 ELSE 0
NOrbOf(ll) == 2 * (2 * ll + 1)

\* 5 * c^2(1 m, 1 mp), the Gaunt coefficients of rank 2 of the p shell
Gaunt5(m, mp) ==
  IF m = mp THEN (IF m = 0 THEN FInt(2) ELSE FInt(-1))
  ELSE IF Abs(m - mp) = 1 THEN (IF mp = 0 THEN FRoot(3, 1) ELSE FRoot(3, -1))
  ELSE FRoot(4, -1)

\* c^0(1 m, 1 mp)
Gaunt0(m, mp) == IF m = mp THEN FInt(1) ELSE FZero

UmatEntry(ll, f0, f2, i, j, t, u) ==
  IF /\ OrbSpin(i) = OrbSpin(t)
     /\ OrbSpin(j) = OrbSpin(u)
     /\ OrbM(ll, i) + OrbM(ll, j) = OrbM(ll, t) + OrbM(ll, u)
  THEN CReal(FAdd(
         FScale(25 * f0, FMul(Gaunt0(OrbM(ll, i), OrbM(ll, t)),
                              Gaunt0(OrbM(ll, u), OrbM(ll, j)))),
         FScale(f2, FMul(Gaunt5(OrbM(ll, i), OrbM(ll, t)),
                         Gaunt5(OrbM(ll, u), OrbM(ll, j))))))
  ELSE CZero

\* edrixs.get_umat_slater(case, F0, F2): U[i][j][t][u] =
\*   1/2 * sum_k c^k(m_i, m_t) c^k(m_u, m_j) F^k  (F^2 enters as F2 / 25)
get_umat_slater(case, f0, f2) ==
  LET ll == ShellL(case)
      O == 1..NOrbOf(ll)
  IN  Arr(50, [i \in O |-> [j \in O |-> [t \in O |-> [u \in O |->
                 UmatEntry(ll, f0, f2, i, j, t, u)]]]])

(***************************************************************************)
(* Fock basis.                                                             *)
(***************************************************************************)
RECURSIVE Combinations(_, _, _)
\* itertools.combinations(range(lo, n + 1), k), in its (lexicographic) order
Combinations(lo, n, k) ==
  IF k = 0 THEN << <<>> >>
  ELSE IF n - lo + 1 < k THEN << >>
  ELSE LET with == Combinations(lo + 1, n, k - 1)
           without == Combinations(lo + 1, n, k)
       IN  [c \in 1..Len(with) |-> <<lo>> \o with[c]] \o without

InSeq(x, s) == \E k \in DOMAIN s : s[k] = x

\* edrixs.get_fock_bin_by_N(norb, N)
get_fock_bin_by_N(n, N) ==
  LET cs == Combinations(1, n, N)
  IN  [c \in 1..Len(cs) |-> [j \in 1..n |-> IF InSeq(j, cs[c]) THEN 1 ELSE 0]]

RECURSIVE Binomial(_, _)
Binomial(n, k) ==
  IF k < 0 \/ k > n THEN 0
  ELSE IF k = 0 \/ k = n THEN 1
  ELSE Binomial(n - 1, k - 1) + Binomial(n - 1, k)

RECURSIVE CountOnes(_, _)
\* the number of occupied orbitals among the first k
CountOnes(st, k) == IF k = 0 THEN 0 ELSE CountOnes(st, k - 1) + st[k]

\* the sign a fermion operator on orbital o picks up on state st
FermiSign(st, o) == IF CountOnes(st, o - 1) % 2 = 0 THEN 1 ELSE -1

(***************************************************************************)
(* Many-body operators in the Fock basis.                                  *)
(***************************************************************************)
\* <lb[a]| emat[i][j] f+_i f_j |rb[b]>
TwoTerm(emat, lb, rb, a, b, i, j) ==
  IF emat[i][j] = CZero \/ rb[b][j] = 0 THEN CZero
  ELSE LET t1 == [rb[b] EXCEPT ![j] = 0]
       IN  IF t1[i] = 1 THEN CZero
           ELSE IF [t1 EXCEPT ![i] = 1] # lb[a] THEN CZero
           ELSE CScale(FermiSign(rb[b], j) * FermiSign(t1, i), emat[i][j])

RECURSIVE TwoSum(_, _, _, _, _, _)
TwoSum(emat, lb, rb, a, b, p) ==
  IF p = 0 THEN CZero
  ELSE LET n == Len(emat)
       IN  CAdd(TwoSum(emat, lb, rb, a, b, p - 1),
                TwoTerm(emat, lb, rb, a, b, ((p - 1) \div n) + 1, ((p - 1) % n) + 1))

\* edrixs.two_fermion(emat, lb, rb)
two_fermion(E, lb, rb) ==
  Arr(E.den, [a \in 1..Len(lb) |-> [b \in 1..Len(rb) |->
                 TwoSum(E.val, lb, rb, a, b, Len(E.val) * Len(E.val))]])

\* <lb[a]| umat[i][j][t][u] f+_i f+_j f_u f_t |rb[b]>
FourTerm(umat, lb, rb, a, b, i, j, t, u) ==
  IF i = j \/ lb[a][i] = 0 \/ lb[a][j] = 0 \/ umat[i][j][t][u] = CZero THEN CZero
  ELSE LET t1 == [rb[b] EXCEPT ![t] = 0]
           t2 == [t1 EXCEPT ![u] = 0]
       IN  IF t2[j] = 1 THEN CZero
           ELSE LET t3 == [t2 EXCEPT ![j] = 1]
                IN  IF t3[i] = 1 THEN CZero
                    ELSE IF [t3 EXCEPT ![i] = 1] # lb[a] THEN CZero
                    ELSE CScale(FermiSign(rb[b], t) * FermiSign(t1, u)
                                * FermiSign(t2, j) * FermiSign(t3, i),
                                umat[i][j][t][u])

RECURSIVE FourSumCreate(_, _, _, _, _, _, _, _)
FourSumCreate(umat, lb, rb, a, b, t, u, p) ==
  IF p = 0 THEN CZero
  ELSE LET n == Len(umat)
       IN  CAdd(FourSumCreate(umat, lb, rb, a, b, t, u, p - 1),
                FourTerm(umat, lb, rb, a, b, ((p - 1) \div n) + 1, ((p - 1) % n) + 1, t, u))

RECURSIVE FourSum(_, _, _, _, _, _)
FourSum(umat, lb, rb, a, b, q) ==
  IF q = 0 THEN CZero
  ELSE LET n == Len(umat)
           t == ((q - 1) \div n) + 1
           u == ((q - 1) % n) + 1
       IN  CAdd(FourSum(umat, lb, rb, a, b, q - 1),
                IF t = u \/ rb[b][t] = 0 \/ rb[b][u] = 0 THEN CZero
                ELSE FourSumCreate(umat, lb, rb, a, b, t, u, n * n))

\* edrixs.four_fermion(emat, lb, rb)
four_fermion(U, lb, rb) ==
  Arr(U.den, [a \in 1..Len(lb) |-> [b \in 1..Len(rb) |->
                 FourSum(U.val, lb, rb, a, b, Len(U.val) * Len(U.val))]])

\* edrixs.build_opers(nfermion, coeff, lb) for one coefficient array
build_opers(nfermion, coeff, lb) ==
  IF nfermion = 2 THEN two_fermion(coeff, lb, lb)
  ELSE four_fermion(coeff, lb, lb)

\* edrixs.build_opers(nfermion, coeff, lb) for a nested list of coefficient arrays
build_opers_list(nfermion, coeffs, lb) ==
  [g \in DOMAIN coeffs |-> [k \in DOMAIN coeffs[g] |->
      build_opers(nfermion, coeffs[g][k], lb)]]

(***************************************************************************)
(* Angular momentum of one particle, in the basis of OrbM and OrbSpin.     *)
(***************************************************************************)
\* <m + 1| L+ |m> = Sqrt(ll (ll + 1) - m (m + 1))
Ladder(ll, m) ==
  LET sq == ll * (ll + 1) - m * (m + 1)
  IN  FRoot(CHOOSE k \in RadIx : Rad[k] = sq, 1)

OrbX(ll, i, j) ==
  IF OrbSpin(i) # OrbSpin(j) THEN CZero
  ELSE IF OrbM(ll, i) = OrbM(ll, j) + 1 THEN CReal(Ladder(ll, OrbM(ll, j)))
  ELSE IF OrbM(ll, j) = OrbM(ll, i) + 1 THEN CReal(Ladder(ll, OrbM(ll, i)))
  ELSE CZero

\* Ly = (L+ - L-) / (2 i)
OrbY(ll, i, j) ==
  IF OrbSpin(i) # OrbSpin(j) THEN CZero
  ELSE IF OrbM(ll, i) = OrbM(ll, j) + 1
       THEN [re |-> FZero, im |-> FNeg(Ladder(ll, OrbM(ll, j)))]
  ELSE IF OrbM(ll, j) = OrbM(ll, i) + 1
       THEN [re |-> FZero, im |-> Ladder(ll, OrbM(ll, i))]
  ELSE CZero

OrbZ(ll, i, j) == IF i = j THEN CInt(2 * OrbM(ll, i)) ELSE CZero

\* edrixs.get_orb_momentum(ll, ispin=True): [lx, ly, lz]
get_orb_momentum(ll) ==
  LET O == 1..NOrbOf(ll)
  IN  << Arr(2, [i \in O |-> [j \in O |-> OrbX(ll, i, j)]]),
         Arr(2, [i \in O |-> [j \in O |-> OrbY(ll, i, j)]]),
         Arr(2, [i \in O |-> [j \in O |-> OrbZ(ll, i, j)]]) >>

SpinX(ll, i, j) ==
  IF OrbM(ll, i) = OrbM(ll, j) /\ OrbSpin(i) # OrbSpin(j) THEN CInt(1) ELSE CZero

\* Sy = (S+ - S-) / (2 i)
SpinY(ll, i, j) ==
  IF OrbM(ll, i) # OrbM(ll, j) \/ OrbSpin(i) = OrbSpin(j) THEN CZero
  ELSE IF OrbSpin(i) = 0 THEN CImag(-1) ELSE CImag(1)

SpinZ(ll, i, j) ==
  IF i # j THEN CZero ELSE IF OrbSpin(i) = 0 THEN CInt(1) ELSE CInt(-1)

\* edrixs.get_spin_momentum(ll): [sx, sy, sz]
get_spin_momentum(ll) ==
  LET O == 1..NOrbOf(ll)
  IN  << Arr(2, [i \in O |-> [j \in O |-> SpinX(ll, i, j)]]),
         Arr(2, [i \in O |-> [j \in O |-> SpinY(ll, i, j)]]),
         Arr(2, [i \in O |-> [j \in O |-> SpinZ(ll, i, j)]]) >>

\* a + b for two lists of matrices (numpy broadcasting of "+", line 115)
ListAdd(a, b) == [k \in DOMAIN a |-> MatAdd(a[k], b[k])]

\* edrixs.atom_hsoc(case, num / den): (num / den) * sum_k l_k s_k
atom_hsoc(case, num, den) ==
  LET ll == ShellL(case)
      L == get_orb_momentum(ll)
      S == get_spin_momentum(ll)
      ls == MatAdd(MatAdd(Dot(L[1], S[1]), Dot(L[2], S[2])), Dot(L[3], S[3]))
  IN  Arr(ls.den * den, MatScaled(Arr(1, ls.val), num))

\* np.dot(o[0], o[0]) + np.dot(o[1], o[1]) + np.dot(o[2], o[2]) (lines 130-132)
SumOfSquares(o) ==
  MatAdd(MatAdd(Dot(o[1], o[1]), Dot(o[2], o[2])), Dot(o[3], o[3]))

(***************************************************************************)
(* Eigenvectors.  A column of v is kept up to its positive normalisation   *)
(* constant (which is irrational): the program's v[:, i] is                *)
(* v[i] / Sqrt(Norm2(v[i])).                                               *)
(***************************************************************************)
RECURSIVE MatVecSum(_, _, _, _)
MatVecSum(a, w, i, k) ==
  IF k = 0 THEN CZero
  ELSE CAdd(MatVecSum(a, w, i, k - 1), CMul(a[i][k], w[k]))

\* a . w
MatVec(a, w) == [i \in DOMAIN a |-> MatVecSum(a, w, i, Len(w))]

RECURSIVE VDotSum(_, _, _)
VDotSum(x, y, k) ==
  IF k = 0 THEN CZero
  ELSE CAdd(VDotSum(x, y, k - 1), CMul(CConj(x[k]), y[k]))

\* x^dagger . y
VDot(x, y) == VDotSum(x, y, Len(x))

Norm2(w) == VDot(w, w).re

\* a number num / den with real num and den > 0
Quot(num, den) == [num |-> num, den |-> den]

\* num / den = p / q for integers p and q
QuotIs(x, p, q) == FScale(q, x.num) = FScale(p, x.den)

\* edrixs.cb_op(A, v).diagonal().real: the expectation value of A on each column
cb_op_diag_real(A, vv) ==
  [c \in DOMAIN vv |->
     Quot(VDot(vv[c], MatVec(A.val, vv[c])).re, FScale(A.den, Norm2(vv[c])))]

(***************************************************************************)
(* scipy.linalg.eigh.  TLC cannot search the reals, so the solver is       *)
(* modelled by its contract over a finite table: a result is any entry of  *)
(* EighTable, or any such entry with two neighbouring columns u, w         *)
(* replaced by u + w, u - w (another basis of a degenerate eigenspace),    *)
(* that IS an eigendecomposition of the matrix handed in: M v[i] =         *)
(* e[i] v[i], the columns nonzero and mutually orthogonal, e ascending.    *)
(***************************************************************************)
SparseVec(n, ents) ==
  [a \in 1..n |->
     IF \E p \in DOMAIN ents : ents[p][1] = a
     THEN CReal(ents[CHOOSE p \in DOMAIN ents : ents[p][1] = a][2])
     ELSE CZero]

EighTableH ==
  [den |-> 50,
   e |-> <<FInt(190),
           FInt(190),
           FInt(190),
           FInt(190),
           FInt(190),
           FInt(190),
           FInt(190),
           FInt(190),
           FInt(190),
           FInt(202),
           FInt(202),
           FInt(202),
           FInt(202),
           FInt(202),
           FInt(220)>>,
   v |-> << << <<2, FInt(1)>> >>,
           << <<3, FInt(1)>>, <<6, FInt(1)>> >>,
           << <<4, FInt(1)>> >>,
           << <<5, FInt(1)>>, <<8, FInt(1)>> >>,
           << <<7, FInt(1)>> >>,
           << <<9, FInt(1)>> >>,
           << <<11, FInt(1)>> >>,
           << <<12, FInt(1)>>, <<13, FInt(1)>> >>,
           << <<14, FInt(1)>> >>,
           << <<1, FInt(-1)>> >>,
           << <<3, FInt(-1)>>, <<6, FInt(1)>> >>,
           << <<5, FInt(-1)>>, <<8, FInt(1)>>, <<10, FInt(-2)>> >>,
           << <<12, FInt(-1)>>, <<13, FInt(1)>> >>,
           << <<15, FInt(-1)>> >>,
           << <<5, FInt(1)>>, <<8, FInt(-1)>>, <<10, FInt(-1)>> >> >>]

EighTableH2 ==
  [den |-> 100,
   e |-> << <<400, 0, 0, -20, 0, 0, 0, 0>>,
           FInt(370),
           FInt(370),
           FInt(370),
           <<397, 0, 0, 0, 0, 0, -1, 0>>,
           <<397, 0, 0, 0, 0, 0, -1, 0>>,
           <<397, 0, 0, 0, 0, 0, -1, 0>>,
           <<397, 0, 0, 0, 0, 0, -1, 0>>,
           <<397, 0, 0, 0, 0, 0, -1, 0>>,
           <<397, 0, 0, 0, 0, 0, 1, 0>>,
           <<397, 0, 0, 0, 0, 0, 1, 0>>,
           <<397, 0, 0, 0, 0, 0, 1, 0>>,
           <<397, 0, 0, 0, 0, 0, 1, 0>>,
           <<397, 0, 0, 0, 0, 0, 1, 0>>,
           <<400, 0, 0, 20, 0, 0, 0, 0>> >>,
   v |-> << << <<2, <<2, 0, 0, 1, 0, 0, 0, 0>> >>, <<5, <<0, -2, -1, 0, 0, 0, 0, 0>> >>,
             <<8, <<0, 0, -1, 0, 0, 0, 0, 0>> >>, <<10, <<0, 1, 0, 0, 0, 0, 0, 0>> >>,
             <<14, <<2, 0, 0, 1, 0, 0, 0, 0>> >> >>,
           << <<2, FInt(1)>>, <<14, FInt(-1)>> >>,
           << <<3, FInt(1)>>, <<6, FInt(1)>>, <<9, <<0, -1, 0, 0, 0, 0, 0, 0>> >> >>,
           << <<4, <<0, -1, 0, 0, 0, 0, 0, 0>> >>, <<12, FInt(1)>>, <<13, FInt(1)>> >>,
           << <<1, <<0, 10, 0, 0, 0, 0, 0, 0>> >>, <<7, <<7, 0, 0, 0, 0, 0, 1, 0>> >> >>,
           << <<2, <<0, 0, 9, 0, 1, 0, 0, 0>> >>, <<5, <<0, 0, 0, 10, 0, 2, 0, 0>> >>,
             <<8, <<0, 0, 0, 8, 0, 0, 0, 0>> >>, <<10, <<0, 0, 0, 2, 0, 2, 0, 0>> >>,
             <<14, <<0, 0, 9, 0, 1, 0, 0, 0>> >> >>,
           << <<3, <<0, 0, 0, 4, 0, 0, 0, 0>> >>, <<6, <<0, 0, 0, -5, 0, 1, 0, 0>> >>,
             <<9, <<0, 0, -1, 0, 1, 0, 0, 0>> >> >>,
           << <<4, <<0, 0, -1, 0, 1, 0, 0, 0>> >>, <<12, <<0, 0, 0, 4, 0, 0, 0, 0>> >>,
             <<13, <<0, 0, 0, -5, 0, 1, 0, 0>> >> >>,
           << <<11, <<0, 10, 0, 0, 0, 0, 0, 0>> >>, <<15, <<-7, 0, 0, 0, 0, 0, 1, 0>> >> >>,
           << <<1, <<0, 10, 0, 0, 0, 0, 0, 0>> >>, <<7, <<7, 0, 0, 0, 0, 0, -1, 0>> >> >>,
           << <<2, <<0, 0, 9, 0, -1, 0, 0, 0>> >>, <<5, <<0, 0, 0, 10, 0, -2, 0, 0>> >>,
             <<8, <<0, 0, 0, 8, 0, 0, 0, 0>> >>, <<10, <<0, 0, 0, 2, 0, -2, 0, 0>> >>,
             <<14, <<0, 0, 9, 0, -1, 0, 0, 0>> >> >>,
           << <<3, <<0, 0, 0, 4, 0, 0, 0, 0>> >>, <<6, <<0, 0, 0, -5, 0, -1, 0, 0>> >>,
             <<9, <<0, 0, -1, 0, -1, 0, 0, 0>> >> >>,
           << <<4, <<0, 0, -1, 0, -1, 0, 0, 0>> >>, <<12, <<0, 0, 0, 4, 0, 0, 0, 0>> >>,
             <<13, <<0, 0, 0, -5, 0, -1, 0, 0>> >> >>,
           << <<11, <<0, 10, 0, 0, 0, 0, 0, 0>> >>, <<15, <<-7, 0, 0, 0, 0, 0, -1, 0>> >> >>,
           << <<2, <<2, 0, 0, -1, 0, 0, 0, 0>> >>, <<5, <<0, -2, 1, 0, 0, 0, 0, 0>> >>,
             <<8, <<0, 0, 1, 0, 0, 0, 0, 0>> >>, <<10, <<0, 1, 0, 0, 0, 0, 0, 0>> >>,
             <<14, <<2, 0, 0, -1, 0, 0, 0, 0>> >> >> >>]


EighTable == <<EighTableH, EighTableH2>>

Decomp(t) ==
  [e |-> Arr(t.den, t.e),
   v |-> [c \in DOMAIN t.v |-> SparseVec(Len(t.v), t.v[c])]]

VAdd(x, y) == [a \in DOMAIN x |-> CAdd(x[a], y[a])]
VSub(x, y) == [a \in DOMAIN x |-> CSub(x[a], y[a])]

\* columns k and k + 1 replaced by their sum and their difference
RotateCols(d, k) ==
  [d EXCEPT !.v = [d.v EXCEPT ![k] = VAdd(d.v[k], d.v[k + 1]),
                              ![k + 1] = VSub(d.v[k], d.v[k + 1])]]

EighCandidates ==
  {Decomp(EighTable[t]) : t \in DOMAIN EighTable}
  \cup UNION {{RotateCols(Decomp(EighTable[t]), k) :
                  k \in 1..(Len(EighTable[t].v) - 1)} : t \in DOMAIN EighTable}

\* M w = (e / eden) w
IsEigenPair(M, ev, eden, w) ==
  LET mw == MatVec(M.val, w)
  IN  \A a \in DOMAIN w :
         CScale(eden, mw[a]) = CMul(CReal(FScale(M.den, ev)), w[a])

IsEigh(M, d) ==
  LET n == Len(M.val)
  IN  /\ Len(d.e.val) = n
      /\ Len(d.v) = n
      /\ \A c \in 1..n : Len(d.v[c]) = n
      /\ \A c \in 1..n : Norm2(d.v[c]) # FZero
      /\ \A c \in 1..n : IsEigenPair(M, d.e.val[c], d.e.den, d.v[c])
      /\ \A c \in 1..n : \A c2 \in (c + 1)..n : VDot(d.v[c], d.v[c2]) = CZero
      /\ \A c \in 1..(n - 1) : FLeq(d.e.val[c], 1, d.e.val[c + 1], 1)

\* the results scipy.linalg.eigh(M) may return
eigh(M) == {d \in EighCandidates : IsEigh(M, d)}

(***************************************************************************)
(* The script.  env holds the module's bindings (None before a name is     *)
(* bound), pc the statement to run next, it the position of the running    *)
(* for loop's iterator, out the lines printed so far (each the arguments   *)
(* handed to print or to str.format), raised the statement at which a      *)
(* library call failed.                                                    *)
(***************************************************************************)
VARIABLES pc, status, raised, env, it, out
vars == <<pc, status, raised, env, it, out>>

None == "None"

Stmts ==
  << "umat", "basis", "print_basis", "n_fermion_4", "H", "eigh", "print_counts",
     "orb_mom", "spin_mom", "tot_mom", "n_fermion_2", "opers", "L2", "S2", "J2",
     "L2_val", "S2_val", "J2_val", "header1", "rows1", "soc", "n_fermion_2b",
     "H2", "eigh2", "print_soc", "header2", "J2_val_soc", "L2_val_soc",
     "S2_val_soc", "rows2", "end" >>

StmtIx(s) == CHOOSE k \in DOMAIN Stmts : Stmts[k] = s
NextStmt(s) == Stmts[StmtIx(s) + 1]
\* statement s has run to completion
After(s) == StmtIx(pc) > StmtIx(s)

\* the statements that call into edrixs, numpy or scipy
CallStmts ==
  { "umat", "basis", "H", "eigh", "orb_mom", "spin_mom", "tot_mom", "opers",
    "L2", "S2", "J2", "L2_val", "S2_val", "J2_val", "soc", "H2", "eigh2",
    "J2_val_soc", "L2_val_soc", "S2_val_soc" }

\* an exception caught and dropped: the script goes on with the next statement
OnRaiseSwallowed(s) == [pc |-> NextStmt(s), status |-> "running"]
\* the script has no try statement: a raised exception ends the run where it is
OnRaise(s) == [pc |-> s, status |-> "raised"]

Names ==
  { "umat", "basis", "n_fermion", "H", "e", "v", "orb_mom", "spin_mom", "tot_mom",
    "opL", "opS", "opJ", "L2", "S2", "J2", "L2_val", "S2_val", "J2_val",
    "i", "eigenvalue", "values_list", "soc", "H2", "e2", "v2",
    "J2_val_soc", "L2_val_soc", "S2_val_soc" }

Init ==
  /\ pc = "umat"
  /\ status = "running"
  /\ raised = None
  /\ env = [x \in Names |-> None]
  /\ it = 0
  /\ out = << >>

Line(kind, args) == [kind |-> kind, args |-> args]

\* statement s runs and control passes to the next statement
Runs(s) ==
  /\ status = "running"
  /\ pc = s
  /\ pc' = NextStmt(s)
  /\ UNCHANGED <<status, raised, it>>

(* ------------------------- right-hand sides --------------------------- *)
RhsUmat == get_umat_slater("p", F0, F2)
\* the call of line 68 with its two arguments exchanged
RhsBasisSwapped == get_fock_bin_by_N(noccu, norb)
RhsBasis == get_fock_bin_by_N(norb, noccu)
RhsH(en) == build_opers(en.n_fermion, en.umat, en.basis)
Reverse(sq) == [k \in DOMAIN sq |-> sq[Len(sq) + 1 - k]]
\* a solver that returns the eigenpairs in descending order
RhsEighDescending(en) ==
  {[e |-> Arr(d.e.den, Reverse(d.e.val)), v |-> Reverse(d.v)] : d \in eigh(en.H)}
RhsEigh(en) == eigh(en.H)
\* scipy.linalg.eigh(a) leaves a as it is (overwrite_a=False)
\* scipy.linalg.eigh(a, overwrite_a=True) may destroy a
EighOverwrites(a) == Arr(a.den, [i \in DOMAIN a.val |-> [j \in DOMAIN a.val |-> CZero]])
EighLeaves(a) == a
CountsArgs(en) == <<Len(en.e.val), Len(en.v), Len(en.v[1])>>
RhsOrbMom == get_orb_momentum(l)
RhsSpinMom == get_spin_momentum(l)
RhsTotMom(en) == ListAdd(en.orb_mom, en.spin_mom)
RhsOpers(en) == build_opers_list(en.n_fermion, <<en.orb_mom, en.spin_mom, en.tot_mom>>, en.basis)
RhsL2(en) == SumOfSquares(en.opL)
\* line 131 without the z component
RhsS2WithoutZ(en) == MatAdd(Dot(en.opS[1], en.opS[1]), Dot(en.opS[2], en.opS[2]))
RhsS2(en) == SumOfSquares(en.opS)
RhsJ2(en) == SumOfSquares(en.opJ)
\* line 136 with S2 in place of L2
RhsL2ValFromS2(en) == cb_op_diag_real(en.S2, en.v)
RhsL2Val(en) == cb_op_diag_real(en.L2, en.v)
RhsS2Val(en) == cb_op_diag_real(en.S2, en.v)
RhsJ2Val(en) == cb_op_diag_real(en.J2, en.v)
Header1Args == <<"#  ", "E  ", "S(S+1)", "L(L+1)">>
\* e[k] as a number
Eigenvalue(ee, k) == Quot(ee.val[k + 1], FInt(ee.den))
Row1Values(en, k) == <<k, Eigenvalue(en.e, k), en.S2_val[k + 1], en.L2_val[k + 1]>>
RhsSoc == atom_hsoc("p", SocNum, SocDen)
UpperTriangle(A) ==
  Arr(A.den, [i \in DOMAIN A.val |->
                [j \in DOMAIN A.val |-> IF j >= i THEN A.val[i][j] ELSE CZero]])
\* line 156 adding only the upper triangle of the spin-orbit operator
RhsH2UpperOnly(en) ==
  MatAdd(en.H, UpperTriangle(build_opers(en.n_fermion, en.soc, en.basis)))
RhsH2(en) == MatAdd(en.H, build_opers(en.n_fermion, en.soc, en.basis))
\* a solver that returns all eigenpairs but the last
RhsEigh2Truncated(en) ==
  {[e |-> Arr(d.e.den, SubSeq(d.e.val, 1, Len(d.e.val) - 1)),
    v |-> SubSeq(d.v, 1, Len(d.v) - 1)] : d \in eigh(en.H2)}
RhsEigh2(en) == eigh(en.H2)
Header2Args == <<"#", "E", "S(S+1)", "L(L+1)", "J(J+1)">>
\* line 163 with v in place of v2
RhsJ2ValSocOnV(en) == cb_op_diag_real(en.J2, en.v)
RhsJ2ValSoc(en) == cb_op_diag_real(en.J2, en.v2)
RhsL2ValSoc(en) == cb_op_diag_real(en.L2, en.v2)
RhsS2ValSoc(en) == cb_op_diag_real(en.S2, en.v2)
\* line 168 without the J(J+1) column
Row2ValuesWithoutJ(en, k) ==
  <<k, Eigenvalue(en.e2, k), en.S2_val_soc[k + 1], en.L2_val_soc[k + 1]>>
Row2Values(en, k) ==
  <<k, Eigenvalue(en.e2, k), en.S2_val_soc[k + 1], en.L2_val_soc[k + 1],
    en.J2_val_soc[k + 1]>>

(* ----------------------------- statements ----------------------------- *)
\* line 57
Umat ==
  /\ Runs("umat")
  /\ env' = [env EXCEPT !.umat = RhsUmat]
  /\ UNCHANGED out

\* line 68
Basis ==
  /\ Runs("basis")
  /\ env' = [env EXCEPT !.basis = RhsBasis]
  /\ UNCHANGED out

\* line 69
PrintBasis ==
  /\ Runs("print_basis")
  /\ out' = Append(out, Line("basis", <<env.basis>>))
  /\ UNCHANGED env

\* line 86
SetNFermion4 ==
  /\ Runs("n_fermion_4")
  /\ env' = [env EXCEPT !.n_fermion = 4]
  /\ UNCHANGED out

\* line 87
BuildH ==
  /\ Runs("H")
  /\ env' = [env EXCEPT !.H = RhsH(env)]
  /\ UNCHANGED out

\* line 100
Eigh ==
  /\ Runs("eigh")
  /\ \E d \in RhsEigh(env) :
        env' = [env EXCEPT !.e = d.e, !.v = d.v, !.H = EighLeaves(env.H)]
  /\ UNCHANGED out

\* lines 101-103
PrintCounts ==
  /\ Runs("print_counts")
  /\ out' = Append(out, Line("counts", CountsArgs(env)))
  /\ UNCHANGED env

\* line 113
OrbMom ==
  /\ Runs("orb_mom")
  /\ env' = [env EXCEPT !.orb_mom = RhsOrbMom]
  /\ UNCHANGED out

\* line 114
SpinMom ==
  /\ Runs("spin_mom")
  /\ env' = [env EXCEPT !.spin_mom = RhsSpinMom]
  /\ UNCHANGED out

\* line 115
TotMom ==
  /\ Runs("tot_mom")
  /\ env' = [env EXCEPT !.tot_mom = RhsTotMom(env)]
  /\ UNCHANGED out

\* line 119
SetNFermion2 ==
  /\ Runs("n_fermion_2")
  /\ env' = [env EXCEPT !.n_fermion = 2]
  /\ UNCHANGED out

\* line 120
BuildOpers ==
  /\ Runs("opers")
  /\ LET o == RhsOpers(env)
     IN  env' = [env EXCEPT !.opL = o[1], !.opS = o[2], !.opJ = o[3]]
  /\ UNCHANGED out

\* line 130
SquareL ==
  /\ Runs("L2")
  /\ env' = [env EXCEPT !.L2 = RhsL2(env)]
  /\ UNCHANGED out

\* line 131
SquareS ==
  /\ Runs("S2")
  /\ env' = [env EXCEPT !.S2 = RhsS2(env)]
  /\ UNCHANGED out

\* line 132
SquareJ ==
  /\ Runs("J2")
  /\ env' = [env EXCEPT !.J2 = RhsJ2(env)]
  /\ UNCHANGED out

\* line 136
ValL ==
  /\ Runs("L2_val")
  /\ env' = [env EXCEPT !.L2_val = RhsL2Val(env)]
  /\ UNCHANGED out

\* line 137
ValS ==
  /\ Runs("S2_val")
  /\ env' = [env EXCEPT !.S2_val = RhsS2Val(env)]
  /\ UNCHANGED out

\* line 138
ValJ ==
  /\ Runs("J2_val")
  /\ env' = [env EXCEPT !.J2_val = RhsJ2Val(env)]
  /\ UNCHANGED out

\* line 139
Header1 ==
  /\ Runs("header1")
  /\ out' = Append(out, Line("header", Header1Args))
  /\ UNCHANGED env

\* lines 140-142, one iteration
Row1 ==
  /\ status = "running"
  /\ pc = "rows1"
  /\ it < Len(env.e.val)
  /\ LET vl == Row1Values(env, it)
     IN  /\ env' = [env EXCEPT !.i = it, !.eigenvalue = vl[2], !.values_list = vl]
         /\ out' = Append(out, Line("row", vl))
  /\ it' = it + 1
  /\ UNCHANGED <<pc, status, raised>>

\* line 140, the iterator is exhausted
EndRows1 ==
  /\ status = "running"
  /\ pc = "rows1"
  /\ it = Len(env.e.val)
  /\ pc' = NextStmt("rows1")
  /\ it' = 0
  /\ UNCHANGED <<status, raised, env, out>>

\* line 154
Soc ==
  /\ Runs("soc")
  /\ env' = [env EXCEPT !.soc = RhsSoc]
  /\ UNCHANGED out

\* line 155
SetNFermion2b ==
  /\ Runs("n_fermion_2b")
  /\ env' = [env EXCEPT !.n_fermion = 2]
  /\ UNCHANGED out

\* line 156
BuildH2 ==
  /\ Runs("H2")
  /\ env' = [env EXCEPT !.H2 = RhsH2(env)]
  /\ UNCHANGED out

\* line 160
Eigh2 ==
  /\ Runs("eigh2")
  /\ \E d \in RhsEigh2(env) :
        env' = [env EXCEPT !.e2 = d.e, !.v2 = d.v, !.H2 = EighLeaves(env.H2)]
  /\ UNCHANGED out

\* line 161
PrintSoc ==
  /\ Runs("print_soc")
  /\ out' = Append(out, Line("text", <<"With SOC">>))
  /\ UNCHANGED env

\* line 162
Header2 ==
  /\ Runs("header2")
  /\ out' = Append(out, Line("header", Header2Args))
  /\ UNCHANGED env

\* line 163
ValJSoc ==
  /\ Runs("J2_val_soc")
  /\ env' = [env EXCEPT !.J2_val_soc = RhsJ2ValSoc(env)]
  /\ UNCHANGED out

\* line 164
ValLSoc ==
  /\ Runs("L2_val_soc")
  /\ env' = [env EXCEPT !.L2_val_soc = RhsL2ValSoc(env)]
  /\ UNCHANGED out

\* line 165
ValSSoc ==
  /\ Runs("S2_val_soc")
  /\ env' = [env EXCEPT !.S2_val_soc = RhsS2ValSoc(env)]
  /\ UNCHANGED out

\* lines 166-168, one iteration
Row2 ==
  /\ status = "running"
  /\ pc = "rows2"
  /\ it < Len(env.e2.val)
  /\ LET vl == Row2Values(env, it)
     IN  /\ env' = [env EXCEPT !.i = it, !.eigenvalue = vl[2], !.values_list = vl]
         /\ out' = Append(out, Line("row", vl))
  /\ it' = it + 1
  /\ UNCHANGED <<pc, status, raised>>

\* line 166, the iterator is exhausted: the script ends
EndRows2 ==
  /\ status = "running"
  /\ pc = "rows2"
  /\ it = Len(env.e2.val)
  /\ pc' = NextStmt("rows2")
  /\ status' = "done"
  /\ it' = 0
  /\ UNCHANGED <<raised, env, out>>

\* a library call raises
Raise ==
  /\ status = "running"
  /\ pc \in CallStmts
  /\ raised' = pc
  /\ pc' = OnRaise(pc).pc
  /\ status' = OnRaise(pc).status
  /\ UNCHANGED <<env, it, out>>

Next ==
  \/ Umat \/ Basis \/ PrintBasis \/ SetNFermion4 \/ BuildH \/ Eigh \/ PrintCounts
  \/ OrbMom \/ SpinMom \/ TotMom \/ SetNFermion2 \/ BuildOpers
  \/ SquareL \/ SquareS \/ SquareJ \/ ValL \/ ValS \/ ValJ
  \/ Header1 \/ Row1 \/ EndRows1
  \/ Soc \/ SetNFermion2b \/ BuildH2 \/ Eigh2 \/ PrintSoc \/ Header2
  \/ ValJSoc \/ ValLSoc \/ ValSSoc \/ Row2 \/ EndRows2
  \/ Raise

Spec == Init /\ [][Next]_vars

(***************************************************************************)
(* Properties.                                                             *)
(***************************************************************************)
\* the largest 2 X for which X counts as a small quantum number
MaxTwiceX == 8

\* x = X (X + 1) for an integer or half-integer X with 2 X <= MaxTwiceX
IsQuantumNumber(x) == \E n \in 0..MaxTwiceX : QuotIs(x, n * (n + 2), 4)

\* x is the integer k
IsInt(x, k) == QuotIs(x, k, 1)

Sorted(ee) == \A c \in 1..(Len(ee.val) - 1) : FLeq(ee.val[c], 1, ee.val[c + 1], 1)

RECURSIVE SumTo(_, _)
SumTo(xs, k) == IF k = 0 THEN FZero ELSE FAdd(SumTo(xs, k - 1), xs[k])

\* sum(ee) = trace(M)
SumIsTrace(ee, M) ==
  /\ FScale(M.den, SumTo(ee.val, Len(ee.val))) = FScale(ee.den, Trace(M).re)
  /\ Trace(M).im = FZero

NBasis == Len(env.basis)

\* C1: the Fock basis returned by get_fock_bin_by_N(norb, noccu) has
\* binomial(norb, noccu) states, 15 for norb = 6 and noccu = 2, each a distinct
\* pattern of norb occupation bits with exactly noccu ones.
C1_BasisSize ==
  After("basis") =>
     /\ Len(env.basis) = Binomial(norb, noccu)
     /\ Len(env.basis) = 15
     /\ \A a \in DOMAIN env.basis :
           /\ Len(env.basis[a]) = norb
           /\ \A o \in 1..norb : env.basis[a][o] \in {0, 1}
           /\ CountOnes(env.basis[a], norb) = noccu
     /\ \A a \in DOMAIN env.basis : \A b \in DOMAIN env.basis :
           a # b => env.basis[a] # env.basis[b]

C1_Witness == pc = "n_fermion_4" /\ Len(out) = 1 /\ Len(out[1].args[1]) = 15

EighShape(ee, vv, M) ==
  /\ Len(ee.val) = NBasis
  /\ Len(vv) = NBasis
  /\ \A c \in DOMAIN vv : Len(vv[c]) = NBasis
  /\ Sorted(ee)
  /\ \A c \in DOMAIN vv : IsEigenPair(M, ee.val[c], ee.den, vv[c])

\* C2: for both diagonalizations the eigenvalues are in non-decreasing order,
\* the number of eigenvalues, the number of eigenvectors and the length of each
\* eigenvector equal the Fock basis size, and e[i] belongs to v[:, i].
C2_EigenOrderAndShape ==
  /\ After("eigh") => EighShape(env.e, env.v, env.H)
  /\ After("eigh2") => EighShape(env.e2, env.v2, env.H2)

C2_Witness ==
  /\ pc = "print_soc"
  /\ FSign(FSub(env.e2.val[1], env.e2.val[2])) = -1
  /\ env.e.val[1] = env.e.val[2]

\* C3: the matrices handed to the eigensolver are Hermitian: H is real and
\* symmetric, H2 = H + the spin-orbit operator is Hermitian (and real symmetric).
C3_Hermitian ==
  /\ After("H") => IsSymmetric(env.H) /\ IsRealMat(env.H) /\ IsHermitian(env.H)
  /\ After("H2") => IsHermitian(env.H2) /\ IsSymmetric(env.H2)

C3_Witness ==
  /\ pc = "eigh2"
  /\ \E a \in DOMAIN env.H2.val : \E b \in DOMAIN env.H2.val :
        a # b /\ env.H2.val[a][b] # CZero /\ env.H.val[a][b] = CZero

\* C4: adding the spin-orbit term keeps the number of states, and the eigenvalue
\* sums are the traces: sum(e) = trace(H), sum(e2) = trace(H2), and
\* sum(e2) - sum(e) = trace of the Fock-basis spin-orbit operator of line 156.
C4_TraceRelation ==
  After("eigh2") =>
     /\ Len(env.e2.val) = Len(env.e.val)
     /\ Len(env.e.val) = NBasis
     /\ SumIsTrace(env.e, env.H)
     /\ SumIsTrace(env.e2, env.H2)
     /\ pc = "print_soc" =>
          LET so == build_opers(env.n_fermion, env.soc, env.basis)
              d == FSub(FScale(env.e.den, SumTo(env.e2.val, Len(env.e2.val))),
                        FScale(env.e2.den, SumTo(env.e.val, Len(env.e.val))))
          IN  FScale(so.den, d) = FScale(env.e.den * env.e2.den, Trace(so).re)

C4_Witness ==
  /\ pc = "print_soc"
  /\ \E c \in DOMAIN env.e2.val : env.e2.val[c] # FInt(env.e2.val[c][1])

AllQuantumNumbers(xs) == \A c \in DOMAIN xs : IsQuantumNumber(xs[c])

\* C5 as stated: every expectation value computed on an eigenvector (S2_val,
\* L2_val, J2_val on v; S2_val_soc, L2_val_soc, J2_val_soc on v2) is X (X + 1)
\* for a small integer or half-integer X.
C5_AllPure ==
  /\ After("L2_val") => AllQuantumNumbers(env.L2_val)
  /\ After("S2_val") => AllQuantumNumbers(env.S2_val)
  /\ After("J2_val") => AllQuantumNumbers(env.J2_val)
  /\ After("J2_val_soc") => AllQuantumNumbers(env.J2_val_soc)
  /\ After("L2_val_soc") => AllQuantumNumbers(env.L2_val_soc)
  /\ After("S2_val_soc") => AllQuantumNumbers(env.S2_val_soc)

\* C5 amended: S2_val[i] and L2_val[i] (on the eigenvectors of H) and
\* J2_val_soc[i] (on the eigenvectors of H2) are X (X + 1) for a small integer or
\* half-integer X, whichever basis the solver picks in a degenerate eigenspace.
C5_PureWhereConserved ==
  /\ After("L2_val") => AllQuantumNumbers(env.L2_val)
  /\ After("S2_val") => AllQuantumNumbers(env.S2_val)
  /\ After("J2_val_soc") => AllQuantumNumbers(env.J2_val_soc)

C5_Witness ==
  /\ After("S2_val_soc")
  /\ ~AllQuantumNumbers(env.S2_val_soc)
  /\ ~AllQuantumNumbers(env.L2_val_soc)
  /\ ~AllQuantumNumbers(env.J2_val)
  /\ env.v[5] # Decomp(EighTableH).v[5]

\* the line printed at position p of a complete run
LineOk(p) ==
  LET n == NBasis
      ln == out[p]
  IN  IF p = 1 THEN ln = Line("basis", <<env.basis>>)
      ELSE IF p = 2 THEN ln = Line("counts", <<n, n, n>>)
      ELSE IF p = 3 THEN ln = Line("header", <<"#  ", "E  ", "S(S+1)", "L(L+1)">>)
      ELSE IF p <= 3 + n
           THEN LET k == p - 4
                IN  /\ ln.kind = "row"
                    /\ ln.args = <<k, Eigenvalue(env.e, k), env.S2_val[k + 1],
                                   env.L2_val[k + 1]>>
      ELSE IF p = 4 + n THEN ln = Line("text", <<"With SOC">>)
      ELSE IF p = 5 + n
           THEN ln = Line("header", <<"#", "E", "S(S+1)", "L(L+1)", "J(J+1)">>)
      ELSE LET k == p - (6 + n)
           IN  /\ k < n
               /\ ln.kind = "row"
               /\ ln.args = <<k, Eigenvalue(env.e2, k), env.S2_val_soc[k + 1],
                              env.L2_val_soc[k + 1], env.J2_val_soc[k + 1]>>

\* C6: the output is, in this order, the basis listing, the count line, the
\* header and rows of the first table, "With SOC", the header and rows of the
\* second table; each table has one row per eigenvalue, in increasing index; the
\* first table's rows carry (i, E, S(S+1), L(L+1)), the second's
\* (i, E, S(S+1), L(L+1), J(J+1)); no row of the second table comes before the
\* last row of the first.
C6_OutputOrder ==
  /\ \A p \in DOMAIN out : LineOk(p)
  /\ status = "done" => Len(out) = 5 + 2 * NBasis

C6_Witness == status = "done" /\ Len(out) = 35 /\ out[35].args[1] = 14

\* the rows of the first table printed so far
Table1Rows == {p \in DOMAIN out : 3 < p /\ p <= 3 + NBasis}

C8_JValues ==
  After("J2_val_soc") =>
     /\ \A c \in DOMAIN env.J2_val_soc :
           \E x \in {0, 2, 6} : IsInt(env.J2_val_soc[c], x)
     /\ \A x \in {0, 2, 6} : \E c \in DOMAIN env.J2_val_soc : IsInt(env.J2_val_soc[c], x)
     /\ \A c \in DOMAIN env.e2.val : FLeq(env.e2.val[1], 1, env.e2.val[c], 1)
     /\ IsInt(env.J2_val_soc[1], 0)

C8_Witness ==
  /\ status = "done"
  /\ IsInt(out[6 + NBasis].args[5], 0)
  /\ FSign(FSub(env.e2.val[1], env.e2.val[2])) = -1

PrintStmts == {"print_basis", "print_counts", "header1", "print_soc", "header2"}

\* the number of lines printed by the statements before s
LinesBefore(s) ==
  Cardinality({q \in PrintStmts : StmtIx(q) < StmtIx(s)})
  + (IF StmtIx(s) > StmtIx("rows1") THEN NBasis ELSE 0)
  + (IF StmtIx(s) > StmtIx("rows2") THEN NBasis ELSE 0)

\* C9: a failing library or linear-algebra step ends the script at that step: no
\* later step runs, no later line is printed and the lines printed before stay
\* (a failure of the second eigendecomposition leaves the complete first table
\* and neither "With SOC" nor a row of the second table).
C9_FailurePropagates ==
  raised # None =>
     /\ status = "raised"
     /\ pc = raised
     /\ ~ENABLED Next
     /\ Len(out) = LinesBefore(raised)
     /\ raised = "eigh2" =>
          /\ Len(out) = 3 + NBasis
          /\ \A p \in DOMAIN out : out[p].kind # "text"
          /\ \A p \in DOMAIN out : out[p].kind = "row" => Len(out[p].args) = 4

C9_Witness == raised = "eigh2" /\ status = "raised" /\ Len(out) = 18

\* the statement that binds each array of the script
BoundBy ==
  [x \in Names \ {"n_fermion", "i", "eigenvalue", "values_list"} |->
     IF x \in {"e", "v"} THEN "eigh"
     ELSE IF x \in {"e2", "v2"} THEN "eigh2"
     ELSE IF x \in {"opL", "opS", "opJ"} THEN "opers"
     ELSE x]

\* C10: no step changes what an earlier step produced: every array stays as it
\* was bound and every printed line stays; the basis handed to the three
\* build_opers calls is the one enumerated; H2 is the Coulomb Hamiltonian as built
\* plus the spin-orbit operator; the second table's values come from the same L2,
\* S2, J2 as the first table's, with v2 in place of v.
C10_Frame ==
  [][ /\ \A x \in DOMAIN BoundBy : After(BoundBy[x]) => env'[x] = env[x]
      /\ SubSeq(out', 1, Len(out)) = out
      /\ (pc \in {"H", "opers", "H2"} /\ pc' # pc /\ raised' = None)
            => env.basis = get_fock_bin_by_N(norb, noccu)
      /\ (pc = "H2" /\ pc' # pc /\ raised' = None)
            => env'.H2 = MatAdd(build_opers(4, get_umat_slater("p", F0, F2), env.basis),
                                build_opers(2, env.soc, env.basis))
      /\ (pc = "L2_val_soc" /\ pc' # pc /\ raised' = None)
            => /\ env'.J2_val_soc = cb_op_diag_real(env.J2, env.v2)
               /\ env'.L2_val_soc = cb_op_diag_real(env.L2, env.v2)
               /\ env.J2_val = cb_op_diag_real(env.J2, env.v)
               /\ env.L2_val = cb_op_diag_real(env.L2, env.v)
      /\ (pc = "S2_val_soc" /\ pc' # pc /\ raised' = None)
            => /\ env'.S2_val_soc = cb_op_diag_real(env.S2, env.v2)
               /\ env.S2_val = cb_op_diag_real(env.S2, env.v)
    ]_vars

C10_Witness ==
  /\ status = "done"
  /\ env.H2 # env.H
  /\ env.v2 # env.v
  /\ env.S2_val_soc # env.S2_val
====
